---- MODULE Spec2Model ----
(***************************************************************************)
(* Loss aggregation and best-epoch bookkeeping of Nervus                   *)
(* (src/lib/component/loss.py: EpochLoss, LossStore), as a state machine.  *)
(*                                                                         *)
(* Loss values are Python floats in the source; here they are exact        *)
(* rationals <<n, d>> in lowest terms (d > 0), so that sums, weighted      *)
(* means and comparisons are decided exactly.  Python's None is <<>> for a *)
(* loss and NoneInt for an integer argument or field.                      *)
(*                                                                         *)
(* An exception raised by a handler propagates to the caller (nothing in   *)
(* src/lib/framework.py catches it), so a failed call ends the run: the    *)
(* state it leaves behind stays observable, no further call is made.       *)
(***************************************************************************)
EXTENDS Integers, Sequences, FiniteSets, TLC

VARIABLES
    label_list,     \* LossStore.label_list (fixed at construction)
    batch_loss,     \* LossStore.batch_loss   : key -> loss or None
    running_loss,   \* LossStore.running_loss : key -> loss
    epoch_loss,     \* LossStore.epoch_loss   : key -> EpochLoss
    batches,        \* history: the batches accumulated since the last reset
    last,           \* history: the last call, its arguments and its outcome
    network,        \* the construction of the network: arguments, outcome, model
    multi_output,   \* what the network's forward has returned
    normalized,     \* history: the last normalize_cnn_output, argument and outcome
    acting_best_epoch,    \* SaveLoadMixin.acting_best_epoch
    acting_best_weight,   \* SaveLoadMixin.acting_best_weight: the epoch number
                          \* whose training gave the weights of the snapshot
    comment,        \* the last line print_epoch_loss has logged
    layer_output,   \* what get_layer_output has returned
    widget,         \* the model create_model has made, and its batch
    passed          \* the arguments of the last LossStore.cal_batch_loss call

storeVars == <<label_list, batch_loss, running_loss, epoch_loss, batches, last>>
netVars == <<network, multi_output, normalized, layer_output>>
loopVars == <<acting_best_epoch, acting_best_weight, comment>>
widgetVars == <<widget, passed>>

vars == <<label_list, batch_loss, running_loss, epoch_loss, batches, last,
          network, multi_output, normalized,
          acting_best_epoch, acting_best_weight, comment, layer_output,
          widget, passed>>

----------------------------------------------------------------------------
(* Bounds of the model *)

MaxBatches == 2      \* cal_running_loss calls between two resets
MaxEpoch == 1        \* largest epoch index passed in a free run
NumEpochs == 4       \* epochs of a driven training run

TaskLists == { <<"grade">>, <<"grade", "malignant">> }
LossVals == { <<1, 2>>, <<3, 5>>, <<9, 10>> }      \* 0.5, 0.6, 0.9
FreeLossVals == { <<1, 2>>, <<9, 10>> }
BatchSizes == {4, 6}

MaxRows == 3         \* rows of a batch passed through the fusion network
MaxTasks == 2        \* tasks of the TaskSet a network is constructed for

TaskNames == { "grade", "malignant", "subgrade" }
ClassCounts == { 2, 3 }
CnnArgs == { "B0", "ResNet", "DenseNet", "ConvNeXtTiny", "ViTb16", "B7", "VGG16" }
NumInputs == { 8 }
GpuIds == { <<>>, <<0>> }
Inputs == { "batch1", "batch2" }
Likelihoods == { <<1, 5>>, <<1, 2>>, <<4, 5>> }     \* 0.2, 0.5, 0.8

----------------------------------------------------------------------------
(* Values *)

None == <<>>
NoneInt == -1

RECURSIVE Gcd(_, _)
Gcd(a, b) == IF b = 0 THEN a ELSE Gcd(b, a % b)

\* the rational n/d (d > 0) in lowest terms
Rat(n, d) == LET g == Gcd(IF n < 0 THEN -n ELSE n, d) IN <<n \div g, d \div g>>

Zero == <<0, 1>>

RatAdd(a, b) == Rat(a[1] * b[2] + b[1] * a[2], a[2] * b[2])
RatMulInt(a, k) == Rat(a[1] * k, a[2])
RatDivInt(a, k) == Rat(a[1], a[2] * k)
RatLess(a, b) == a[1] * b[2] < b[1] * a[2]

Range(s) == { s[i] : i \in 1..Len(s) }

Last(s) == s[Len(s)]

\* self.label_list + ['total']
Keys(ll) == ll \o <<"total">>

----------------------------------------------------------------------------
(* EpochLoss *)

EpochLossInit ==
    [train |-> <<>>, val |-> <<>>, best_val_loss |-> None,
     best_epoch |-> NoneInt, update_flag |-> FALSE]

\* (variant: the phase is ignored, every loss lands in the validation history)
append_epoch_loss_val(el, phase, new_epoch_loss) ==
    [el EXCEPT !.val = Append(@, new_epoch_loss)]

\* (variant: the history holds the latest loss only)
append_epoch_loss_latest(el, phase, new_epoch_loss) ==
    IF phase = "train"
    THEN [el EXCEPT !.train = <<new_epoch_loss>>]
    ELSE [el EXCEPT !.val = <<new_epoch_loss>>]

append_epoch_loss(el, phase, new_epoch_loss) ==
    IF phase = "train"
    THEN [el EXCEPT !.train = Append(@, new_epoch_loss)]
    ELSE [el EXCEPT !.val = Append(@, new_epoch_loss)]

get_latest_loss(el, phase) ==
    IF phase = "train" THEN Last(el.train) ELSE Last(el.val)

\* float < None raises TypeError
check_raises(el, epoch) == epoch # 0 /\ el.best_val_loss = None

\* (variant: an equal loss counts as an improvement, <= for <)
check_best_val_loss_epoch_le(el, epoch) ==
    IF epoch = 0
    THEN [el EXCEPT !.best_val_loss = get_latest_loss(el, "val"),
                    !.best_epoch = epoch + 1,
                    !.update_flag = TRUE]
    ELSE IF ~RatLess(el.best_val_loss, get_latest_loss(el, "val"))
         THEN [el EXCEPT !.best_val_loss = get_latest_loss(el, "val"),
                         !.best_epoch = epoch + 1,
                         !.update_flag = TRUE]
         ELSE [el EXCEPT !.update_flag = FALSE]

\* (variant: the epoch index itself is stored, not the epoch number)
check_best_val_loss_epoch_index(el, epoch) ==
    IF epoch = 0
    THEN [el EXCEPT !.best_val_loss = get_latest_loss(el, "val"),
                    !.best_epoch = epoch,
                    !.update_flag = TRUE]
    ELSE IF RatLess(get_latest_loss(el, "val"), el.best_val_loss)
         THEN [el EXCEPT !.best_val_loss = get_latest_loss(el, "val"),
                         !.best_epoch = epoch,
                         !.update_flag = TRUE]
         ELSE [el EXCEPT !.update_flag = FALSE]

check_best_val_loss_epoch(el, epoch) ==
    IF epoch = 0
    THEN [el EXCEPT !.best_val_loss = get_latest_loss(el, "val"),
                    !.best_epoch = epoch + 1,
                    !.update_flag = TRUE]
    ELSE IF RatLess(get_latest_loss(el, "val"), el.best_val_loss)
         THEN [el EXCEPT !.best_val_loss = get_latest_loss(el, "val"),
                         !.best_epoch = epoch + 1,
                         !.update_flag = TRUE]
         ELSE [el EXCEPT !.update_flag = FALSE]

----------------------------------------------------------------------------
(* LossStore *)

init_batch_loss(ll) == [k \in Range(Keys(ll)) |-> None]

init_running_loss(ll) == [k \in Range(Keys(ll)) |-> Zero]

init_epoch_loss(ll) == [k \in Range(Keys(ll)) |-> EpochLossInit]

\* the number of leading labels whose prediction outputs[label_name] exists;
\* the first loop raises KeyError at the label after them
found_outputs(outputs, labels) ==
    IF \A i \in 1..Len(labels) : labels[i] \in outputs
    THEN Len(labels)
    ELSE (CHOOSE i \in 1..Len(labels) :
              /\ labels[i] \notin outputs
              /\ \A j \in 1..(i - 1) : labels[j] \in outputs) - 1

\* first loop of cal_batch_loss over the first n labels
set_batch_losses(bl, labels, n, crit) ==
    [k \in DOMAIN bl |->
        IF \E i \in 1..n : labels[i] = k THEN crit[k] ELSE bl[k]]

\* second loop of cal_batch_loss: torch.add over labels.keys(), from 0.0
RECURSIVE sum_batch_losses(_, _, _)
sum_batch_losses(bl, labels, n) ==
    IF n = 0 THEN Zero
    ELSE RatAdd(sum_batch_losses(bl, labels, n - 1), bl[labels[n]])

\* cal_batch_loss(outputs, labels): outputs is the key set of the predictions,
\* labels the keys of the label mapping in order, crit the criterion's values
cal_batch_loss(bl, outputs, labels, crit) ==
    LET n == found_outputs(outputs, labels)
        set == set_batch_losses(bl, labels, n, crit)
    IN  IF n < Len(labels)
        THEN [batch_loss |-> set, result |-> "KeyError"]
        ELSE [batch_loss |->
                 [set EXCEPT !["total"] = sum_batch_losses(set, labels, Len(labels))],
              result |-> "ok"]

\* the number of leading labels whose batch loss is set; None.item() raises
\* AttributeError at the label after them
set_losses(bl, ll) ==
    IF \A i \in 1..Len(ll) : bl[ll[i]] # None
    THEN Len(ll)
    ELSE (CHOOSE i \in 1..Len(ll) :
              /\ bl[ll[i]] = None
              /\ \A j \in 1..(i - 1) : bl[ll[j]] # None) - 1

\* (variant: the batch loss is accumulated without its batch size)
RECURSIVE accumulate_unweighted(_, _, _, _, _)
accumulate_unweighted(rl, bl, ll, n, batch_size) ==
    IF n = 0 THEN rl
    ELSE LET prev == accumulate_unweighted(rl, bl, ll, n - 1, batch_size)
             label_name == ll[n]
             new == RatAdd(prev[label_name], bl[label_name])
         IN  [prev EXCEPT ![label_name] = new,
                          !["total"] = RatAdd(prev["total"], new)]

\* (variant: 'total' grows by this batch's weighted loss only)
RECURSIVE accumulate_delta(_, _, _, _, _)
accumulate_delta(rl, bl, ll, n, batch_size) ==
    IF n = 0 THEN rl
    ELSE LET prev == accumulate_delta(rl, bl, ll, n - 1, batch_size)
             label_name == ll[n]
             delta == RatMulInt(bl[label_name], batch_size)
         IN  [prev EXCEPT ![label_name] = RatAdd(prev[label_name], delta),
                          !["total"] = RatAdd(prev["total"], delta)]

\* the loop of cal_running_loss over the first n labels
RECURSIVE accumulate(_, _, _, _, _)
accumulate(rl, bl, ll, n, batch_size) ==
    IF n = 0 THEN rl
    ELSE LET prev == accumulate(rl, bl, ll, n - 1, batch_size)
             label_name == ll[n]
             new == RatAdd(prev[label_name], RatMulInt(bl[label_name], batch_size))
         IN  [prev EXCEPT ![label_name] = new,
                          !["total"] = RatAdd(prev["total"], new)]

\* (variant: the assertion on batch_size comes after the loop, in which a
\* missing batch size weighs as 1)
cal_running_loss_late(rl, bl, ll, batch_size) ==
    IF batch_size = NoneInt
    THEN [running_loss |-> accumulate(rl, bl, ll, set_losses(bl, ll), 1),
          result |-> "AssertionError"]
    ELSE LET n == set_losses(bl, ll)
         IN  [running_loss |-> accumulate(rl, bl, ll, n, batch_size),
              result |-> IF n < Len(ll) THEN "AttributeError" ELSE "ok"]

cal_running_loss(rl, bl, ll, batch_size) ==
    IF batch_size = NoneInt
    THEN [running_loss |-> rl, result |-> "AssertionError"]
    ELSE LET n == set_losses(bl, ll)
         IN  [running_loss |-> accumulate(rl, bl, ll, n, batch_size),
              result |-> IF n < Len(ll) THEN "AttributeError" ELSE "ok"]

\* _total after the label loop of cal_epoch_loss over the first n labels
RECURSIVE sum_epoch_losses(_, _, _, _)
sum_epoch_losses(rl, ll, n, dataset_size) ==
    IF n = 0 THEN Zero
    ELSE RatAdd(sum_epoch_losses(rl, ll, n - 1, dataset_size),
                RatDivInt(rl[ll[n]], dataset_size))

\* (variant: 'total' is the sum of the per-label epoch losses, not their mean)
append_epoch_losses_sum(el, rl, ll, phase, dataset_size) ==
    [k \in DOMAIN el |->
        IF k = "total"
        THEN append_epoch_loss(el[k], phase,
                 sum_epoch_losses(rl, ll, Len(ll), dataset_size))
        ELSE append_epoch_loss(el[k], phase, RatDivInt(rl[k], dataset_size))]

\* (variant: 'total' is the running total over the dataset size)
append_epoch_losses_running(el, rl, ll, phase, dataset_size) ==
    [k \in DOMAIN el |->
        append_epoch_loss(el[k], phase, RatDivInt(rl[k], dataset_size))]

\* (variant: every label's epoch loss is divided by the number of labels too)
append_epoch_losses_all(el, rl, ll, phase, dataset_size) ==
    [k \in DOMAIN el |->
        IF k = "total"
        THEN append_epoch_loss(el[k], phase,
                 RatDivInt(sum_epoch_losses(rl, ll, Len(ll), dataset_size), Len(ll)))
        ELSE append_epoch_loss(el[k], phase,
                 RatDivInt(rl[k], dataset_size * Len(ll)))]

\* the appends of cal_epoch_loss: every label, then 'total'
append_epoch_losses(el, rl, ll, phase, dataset_size) ==
    [k \in DOMAIN el |->
        IF k = "total"
        THEN append_epoch_loss(el[k], phase,
                 RatDivInt(sum_epoch_losses(rl, ll, Len(ll), dataset_size), Len(ll)))
        ELSE append_epoch_loss(el[k], phase, RatDivInt(rl[k], dataset_size))]

\* the number of leading keys whose check_best_val_loss_epoch does not raise
checked_keys(el, keys, epoch) ==
    IF \A i \in 1..Len(keys) : ~check_raises(el[keys[i]], epoch)
    THEN Len(keys)
    ELSE (CHOOSE i \in 1..Len(keys) :
              /\ check_raises(el[keys[i]], epoch)
              /\ \A j \in 1..(i - 1) : ~check_raises(el[keys[j]], epoch)) - 1

\* the best-epoch loop of cal_epoch_loss over the first n keys
check_best(el, keys, n, epoch) ==
    [k \in DOMAIN el |->
        IF \E i \in 1..n : keys[i] = k
        THEN check_best_val_loss_epoch(el[k], epoch)
        ELSE el[k]]

\* (variant: the running losses are carried over into the next period)
epoch_reset_keep(bl, rl, ll) ==
    [batch_loss |-> init_batch_loss(ll), running_loss |-> rl]

\* the re-initialisation at the end of cal_epoch_loss
epoch_reset(bl, rl, ll) ==
    [batch_loss |-> init_batch_loss(ll), running_loss |-> init_running_loss(ll)]

\* (variant: every phase has a history, a phase other than 'train' is taken
\* as validation)
has_history_any(phase) == TRUE

\* getattr(self, phase) of append_epoch_loss finds a history list
has_history(phase) == phase \in {"train", "val"}

\* cal_epoch_loss after its assertion: the appends, the best-epoch checks and
\* the re-initialisation
epoch_step(bl, rl, el, ll, epoch, phase, dataset_size) ==
    LET unchanged(exc) ==
            [batch_loss |-> bl, running_loss |-> rl, epoch_loss |-> el, result |-> exc]
    IN  IF dataset_size = 0 THEN unchanged("ZeroDivisionError")
        ELSE IF ~has_history(phase) THEN unchanged("AttributeError")
        ELSE LET appended == append_epoch_losses(el, rl, ll, phase, dataset_size)
                 n == IF phase = "val" THEN checked_keys(appended, Keys(ll), epoch)
                      ELSE Len(Keys(ll))
                 checked == IF phase = "val"
                            THEN check_best(appended, Keys(ll), n, epoch)
                            ELSE appended
             IN  IF n < Len(Keys(ll))
                 THEN [batch_loss |-> bl, running_loss |-> rl,
                       epoch_loss |-> checked, result |-> "TypeError"]
                 ELSE [batch_loss |-> epoch_reset(bl, rl, ll).batch_loss,
                       running_loss |-> epoch_reset(bl, rl, ll).running_loss,
                       epoch_loss |-> checked, result |-> "ok"]

\* (variant: the assertion on dataset_size comes after the re-initialisation)
cal_epoch_loss_late(bl, rl, el, ll, epoch, phase, dataset_size) ==
    IF dataset_size = NoneInt
    THEN [batch_loss |-> epoch_reset(bl, rl, ll).batch_loss,
          running_loss |-> epoch_reset(bl, rl, ll).running_loss,
          epoch_loss |-> el, result |-> "AssertionError"]
    ELSE epoch_step(bl, rl, el, ll, epoch, phase, dataset_size)

cal_epoch_loss(bl, rl, el, ll, epoch, phase, dataset_size) ==
    IF dataset_size = NoneInt
    THEN [batch_loss |-> bl, running_loss |-> rl, epoch_loss |-> el,
          result |-> "AssertionError"]
    ELSE epoch_step(bl, rl, el, ll, epoch, phase, dataset_size)

\* EpochLoss.is_val_loss_updated
is_val_loss_updated(el) == el.update_flag

\* BaseModel.is_total_val_loss_updated
is_total_val_loss_updated(epl) == is_val_loss_updated(epl["total"])

\* (variant: the snapshot is keyed by the first label's best epoch)
store_weight_label(epl, ll) == epl[ll[1]].best_epoch

\* SaveLoadMixin.store_weight: the value acting_best_epoch takes
store_weight(epl, ll) == epl["total"].best_epoch

\* (variant: the marker is shown at epoch 0 too)
print_epoch_loss_always(epl, num_epochs, epoch) ==
    [epoch |-> epoch + 1, num_epochs |-> num_epochs,
     train_loss |-> get_latest_loss(epl["total"], "train"),
     val_loss |-> get_latest_loss(epl["total"], "val"),
     updated_comment |-> IF is_val_loss_updated(epl["total"])
                         THEN "   Updated best val_loss!" ELSE ""]

\* LossMixin.print_epoch_loss: the parts of the line it logs
print_epoch_loss(epl, num_epochs, epoch) ==
    [epoch |-> epoch + 1, num_epochs |-> num_epochs,
     train_loss |-> get_latest_loss(epl["total"], "train"),
     val_loss |-> get_latest_loss(epl["total"], "val"),
     updated_comment |-> IF epoch > 0 /\ is_val_loss_updated(epl["total"])
                         THEN "   Updated best val_loss!" ELSE ""]

----------------------------------------------------------------------------
(* Networks (src/config/model.py) *)

\* Python's None where a string is expected
NoneStr == "None"

\* DUMMY_LAYER = nn.Identity()
DUMMY_LAYER == "Identity"

\* no model object
NoModel == [class |-> NoneStr]

\* label_num_classes is an insertion-ordered dict: here a sequence of
\* <<label_name, num_outputs>> pairs with distinct label names.

\* str.startswith, for the names in use
NameTails ==
    { "", "0", "2", "4", "6", "7", "16", "18", "Tiny", "Small", "Base", "Large",
      "b16", "b32", "l16", "l32" }

startswith(s, prefix) == \E tail \in NameTails : s = prefix \o tail

\* MLP(num_inputs, num_outputs): a Sequential whose last layer 'fc' is a Linear
MLP(num_inputs, num_outputs) ==
    [class |-> "MLP", arch |-> "MLP", num_inputs |-> num_inputs,
     projection |-> "Linear", num_outputs |-> num_outputs,
     names |-> <<>>, heads |-> <<>>, parallel |-> FALSE]

\* a torchvision model of the architecture; num_classes = NoneInt stands for
\* the library's default
torchvision(arch, num_classes) ==
    [class |-> "torchvision", arch |-> arch, num_inputs |-> NoneInt,
     projection |-> IF \/ startswith(arch, "resnet")
                       \/ startswith(arch, "densenet")
                    THEN "Linear" ELSE "Sequential",
     num_outputs |-> num_classes,
     names |-> <<>>, heads |-> <<>>, parallel |-> FALSE]

Composers ==
    { "MLP_Multi", "ResNet_Multi", "DenseNet_Multi", "EfficientNet_Multi",
      "ConvNeXt_Multi", "ViT_Multi" }

\* _prefix_layer of the composer class
prefix_layer(class) ==
    CASE class \in {"MLP_Multi", "ResNet_Multi", "DenseNet_Multi"} -> "fc_"
      [] class \in {"EfficientNet_Multi", "ConvNeXt_Multi"} -> "block_"
      [] class = "ViT_Multi" -> "heads_"

\* fc_names / block_names / head_names
head_names(class, label_num_classes) ==
    [i \in 1..Len(label_num_classes) |->
        prefix_layer(class) \o label_num_classes[i][1]]

\* a module constructed for the head of the label: an object of its own
Fresh(module, label_name) == module \o "(" \o label_name \o ")"

\* (variant: the EfficientNet heads take the backbone's own Dropout)
head_layers_shared(class, label_name) ==
    CASE class \in {"MLP_Multi", "ResNet_Multi", "DenseNet_Multi"} ->
            << [name |-> "", module |-> "Linear",
                object |-> Fresh("Linear", label_name)] >>
      [] class = "EfficientNet_Multi" ->
            << [name |-> "0_" \o label_name, module |-> "Dropout",
                object |-> "extractor.classifier[0]"],
               [name |-> "1_" \o label_name, module |-> "Linear",
                object |-> Fresh("Linear", label_name)] >>
      [] class = "ConvNeXt_Multi" ->
            << [name |-> "0_" \o label_name, module |-> "LayerNorm2d",
                object |-> "extractor.classifier[0]"],
               [name |-> "1_" \o label_name, module |-> "Flatten",
                object |-> "extractor.classifier[1]"],
               [name |-> "2_" \o label_name, module |-> "Linear",
                object |-> Fresh("Linear", label_name)] >>
      [] class = "ViT_Multi" ->
            << [name |-> "head", module |-> "Linear",
                object |-> Fresh("Linear", label_name)] >>

\* the layers of the head of one label: its modules by name; object is the
\* identity of the module, either constructed for this head or the backbone's
\* own module, taken by reference
head_layers(class, label_name) ==
    CASE class \in {"MLP_Multi", "ResNet_Multi", "DenseNet_Multi"} ->
            << [name |-> "", module |-> "Linear",
                object |-> Fresh("Linear", label_name)] >>
      [] class = "EfficientNet_Multi" ->
            << [name |-> "0_" \o label_name, module |-> "Dropout",
                object |-> Fresh("Dropout", label_name)],
               [name |-> "1_" \o label_name, module |-> "Linear",
                object |-> Fresh("Linear", label_name)] >>
      [] class = "ConvNeXt_Multi" ->
            << [name |-> "0_" \o label_name, module |-> "LayerNorm2d",
                object |-> "extractor.classifier[0]"],
               [name |-> "1_" \o label_name, module |-> "Flatten",
                object |-> "extractor.classifier[1]"],
               [name |-> "2_" \o label_name, module |-> "Linear",
                object |-> Fresh("Linear", label_name)] >>
      [] class = "ViT_Multi" ->
            << [name |-> "head", module |-> "Linear",
                object |-> Fresh("Linear", label_name)] >>

\* (variant: every head is as wide as the first label's)
fc_multi_first(class, label_num_classes) ==
    [n \in Range(head_names(class, label_num_classes)) |->
        LET i == CHOOSE j \in 1..Len(label_num_classes) :
                     n = prefix_layer(class) \o label_num_classes[j][1]
        IN  [layers |-> head_layers(class, label_num_classes[i][1]),
             out_features |-> label_num_classes[1][2]]]

\* fc_multi / head_multi: the ModuleDict of the heads
fc_multi(class, label_num_classes) ==
    [n \in Range(head_names(class, label_num_classes)) |->
        LET i == CHOOSE j \in 1..Len(label_num_classes) :
                     n = prefix_layer(class) \o label_num_classes[j][1]
        IN  [layers |-> head_layers(class, label_num_classes[i][1]),
             out_features |-> label_num_classes[i][2]]]

\* X_Multi(base_model, label_num_classes): the constructor of a composer class
Multi(class, base_model, label_num_classes) ==
    [class |-> class, arch |-> base_model.arch, num_inputs |-> base_model.num_inputs,
     projection |-> DUMMY_LAYER, num_outputs |-> NoneInt,
     names |-> head_names(class, label_num_classes),
     heads |-> fc_multi(class, label_num_classes),
     parallel |-> FALSE]

\* the outcome of a construction: the model, or the exception and the line of
\* src/config/model.py that raises it; log holds the errors logged on the way
Built(model, log) ==
    [result |-> "ok", line |-> NoneInt, model |-> model, log |-> log]

Raised(exc, line, log) ==
    [result |-> exc, line |-> line, model |-> NoModel, log |-> log]

mlp_net(num_inputs, label_num_classes) ==
    IF Len(label_num_classes) = 0 THEN Raised("IndexError", 263, <<>>)
    ELSE LET mlp_base == MLP(num_inputs, label_num_classes[1][2])
         IN  IF Len(label_num_classes) > 1
             THEN Built(Multi("MLP_Multi", mlp_base, label_num_classes), <<>>)
             ELSE Built(mlp_base, <<>>)

\* the constructors conv_net selects from
models ==
    [B0 |-> "efficientnet_b0", B2 |-> "efficientnet_b2", B4 |-> "efficientnet_b4",
     B6 |-> "efficientnet_b6", ResNet18 |-> "resnet18", ResNet |-> "resnet50",
     DenseNet |-> "densenet161", ConvNeXtTiny |-> "convnext_tiny",
     ConvNeXtSmall |-> "convnext_small", ConvNeXtBase |-> "convnext_base",
     ConvNeXtLarge |-> "convnext_large", ViTb16 |-> "vit_b_16",
     ViTb32 |-> "vit_b_32", ViTl16 |-> "vit_l_16", ViTl32 |-> "vit_l_32"]

\* the composer class of the multi-label branch of conv_net, NoneStr when no
\* prefix matches
multi_class(cnn_name) ==
    IF startswith(cnn_name, "ResNet") THEN "ResNet_Multi"
    ELSE IF startswith(cnn_name, "B") THEN "EfficientNet_Multi"
    ELSE IF startswith(cnn_name, "DenseNet") THEN "DenseNet_Multi"
    ELSE IF startswith(cnn_name, "ConvNeXt") THEN "ConvNeXt_Multi"
    ELSE IF startswith(cnn_name, "ViT") THEN "ViT_Multi"
    ELSE NoneStr

\* the lines of the multi-label branch that call cnn()
multi_line(class) ==
    CASE class = "ResNet_Multi" -> 328
      [] class = "EfficientNet_Multi" -> 331
      [] class = "DenseNet_Multi" -> 334
      [] class = "ConvNeXt_Multi" -> 337
      [] class = "ViT_Multi" -> 340

\* conv_net: the local cnn is bound only when cnn_name is one of the names;
\* otherwise the error is logged and the function goes on
conv_net(cnn_name, label_num_classes) ==
    LET bound == cnn_name \in DOMAIN models
        log == IF bound THEN <<>> ELSE << "No specified such CNN or ViT" >>
    IN  IF Len(label_num_classes) > 1
        THEN IF cnn_name = NoneStr THEN Raised("AttributeError", 327, log)
             ELSE IF multi_class(cnn_name) = NoneStr
             THEN Raised("UnboundLocalError", 349, log \o << "Cannot make multi" >>)
             ELSE IF ~bound
             THEN Raised("UnboundLocalError", multi_line(multi_class(cnn_name)), log)
             ELSE Built(Multi(multi_class(cnn_name),
                              torchvision(models[cnn_name], NoneInt),
                              label_num_classes), log)
        ELSE IF Len(label_num_classes) = 0 THEN Raised("IndexError", 347, log)
             ELSE IF ~bound THEN Raised("UnboundLocalError", 348, log)
             ELSE Built(torchvision(models[cnn_name], label_num_classes[1][2]), log)

\* MLPCNN_Net(cnn_name, num_inputs, label_num_classes)
MLPCNN_Net(cnn_name, num_inputs, label_num_classes) ==
    LET dummy_label_num_classes == << <<"dummy_label", 2>> >>
        cnn == conv_net(cnn_name, dummy_label_num_classes)
        mlp == mlp_net(num_inputs + 1, label_num_classes)
    IN  IF cnn.result # "ok" THEN cnn
        ELSE IF mlp.result # "ok" THEN [mlp EXCEPT !.log = cnn.log \o @]
        ELSE Built([class |-> "MLPCNN_Net", cnn |-> cnn.model, mlp |-> mlp.model,
                    parallel |-> FALSE], cnn.log \o mlp.log)

\* create_mlp_cnn: mlp and cnn are the names of the two parts, or None; with
\* gpu_ids the model is wrapped for data-parallel execution
create_mlp_cnn(mlp, cnn, num_inputs, label_num_classes, gpu_ids) ==
    LET made == IF mlp # NoneStr /\ cnn = NoneStr
                THEN mlp_net(num_inputs, label_num_classes)
                ELSE IF mlp = NoneStr /\ cnn # NoneStr
                THEN conv_net(cnn, label_num_classes)
                ELSE MLPCNN_Net(cnn, num_inputs, label_num_classes)
    IN  IF made.result # "ok" THEN made
        ELSE [made EXCEPT !.model.parallel = (gpu_ids # <<>>)]

\* exact rational arithmetic for the likelihoods
RatSub(a, b) == Rat(a[1] * b[2] - b[1] * a[2], a[2] * b[2])
RatDiv(a, b) == Rat(a[1] * b[2], a[2] * b[1])

\* outputs_cnn.max() and outputs_cnn.min() of a non-empty batch
BatchMax(batch) ==
    batch[CHOOSE i \in 1..Len(batch) :
              \A j \in 1..Len(batch) : ~RatLess(batch[i], batch[j])]

BatchMin(batch) ==
    batch[CHOOSE i \in 1..Len(batch) :
              \A j \in 1..Len(batch) : ~RatLess(batch[j], batch[i])]

\* (variant: a batch of equal likelihoods is passed on as it is)
normalize_cnn_output_same(outputs_cnn) ==
    IF BatchMin(outputs_cnn) = BatchMax(outputs_cnn)
    THEN [result |-> "ok", value |-> outputs_cnn]
    ELSE [result |-> "UnboundLocalError", value |-> <<>>]

\* MLPCNN_Net.normalize_cnn_output: the else branch assigns the rescaled batch
\* to outputs_cnn__normed, and the return reads outputs_cnn_normed, which is
\* not bound on that path
normalize_cnn_output(outputs_cnn) ==
    IF BatchMin(outputs_cnn) = BatchMax(outputs_cnn)
    THEN [result |-> "ok",
          value |-> [i \in 1..Len(outputs_cnn) |->
                        RatSub(outputs_cnn[i], BatchMin(outputs_cnn))]]
    ELSE [result |-> "UnboundLocalError", value |-> <<>>]

\* what a forward pass gets: the tabular batch, the image batch, and, once the
\* auxiliary image model has run, the normalised likelihoods appended to the
\* tabular batch
Batch(inputs, images, cnn) == [inputs |-> inputs, images |-> images, cnn |-> cnn]

\* the output of a head: which head, how wide, on which features
Tensor(head, out_features, features) ==
    [head |-> head, out_features |-> out_features, features |-> features]

NoOutput == [result |-> "none", kind |-> "none", keys |-> <<>>, value |-> <<>>]

\* str.endswith, for the names in use
NameHeads ==
    { prefix \o head : prefix \in {"", "fc_", "block_", "heads_"},
                       head \in {"", "sub"} }

endswith(s, suffix) == \E head \in NameHeads : s = head \o suffix

NoLayerOutput ==
    [label_name |-> NoneStr, result |-> "none", value |-> Tensor(NoneStr, NoneInt, <<>>)]

\* get_layer_output(outputs_multi, label_name): the value under the first key,
\* in the mapping's order, that ends with label_name
get_layer_output(outputs_multi, label_name) ==
    LET keys == outputs_multi.keys
        layer_names == SelectSeq(keys, LAMBDA k : endswith(k, label_name))
    IN  IF outputs_multi.kind # "mapping"
        THEN [NoLayerOutput EXCEPT !.label_name = label_name, !.result = "AttributeError"]
        ELSE IF layer_names = <<>>
        THEN [NoLayerOutput EXCEPT !.label_name = label_name, !.result = "IndexError"]
        ELSE [label_name |-> label_name, result |-> "ok",
              value |-> outputs_multi.value[layer_names[1]]]

\* (variant: only the first head is forwarded)
forward_multi_first(net, x) ==
    [fc_name \in {net.names[i] : i \in 1..(IF net.names = <<>> THEN 0 ELSE 1)} |->
        Tensor(fc_name, net.heads[fc_name].out_features, x)]

\* the fork of X_Multi.forward: every head name with its head's output on x
forward_multi(net, x) ==
    [fc_name \in Range(net.names) |->
        Tensor(fc_name, net.heads[fc_name].out_features, x)]

\* forward of a model that is not a fusion model: the backbone runs once, a
\* composed model forks on its features, a plain one returns its projection's
\* output
forward_net(net, batch) ==
    LET x == [extractor |-> net.arch, batch |-> batch]
    IN  IF net.class \in Composers
        THEN [result |-> "ok", kind |-> "mapping", keys |-> net.names,
              value |-> forward_multi(net, x)]
        ELSE [result |-> "ok", kind |-> "tensor", keys |-> <<>>,
              value |-> Tensor(NoneStr, net.num_outputs, x)]

\* forward of the model on a batch; likelihood is the column of the positive
\* class in the auxiliary image model's output (MLPCNN_Net.forward)
forward(net, inputs, images, likelihood) ==
    IF net.class = "MLPCNN_Net"
    THEN LET outputs_cnn_normed == normalize_cnn_output(likelihood)
         IN  IF outputs_cnn_normed.result # "ok"
             THEN [NoOutput EXCEPT !.result = outputs_cnn_normed.result]
             ELSE forward_net(net.mlp, Batch(inputs, NoneStr, outputs_cnn_normed.value))
    ELSE IF net.class \in {"MLP", "MLP_Multi"}
    THEN forward_net(net, Batch(inputs, NoneStr, <<>>))
    ELSE forward_net(net, Batch(NoneStr, images, <<>>))

----------------------------------------------------------------------------
(* Models of the framework *)

Tasks == { "classification", "regression", "deepsurv" }

DeepSurvs == { "MLPDeepSurv", "CVDeepSurv", "FusionDeepSurv" }

Selected(class) == [result |-> "ok", line |-> NoneInt, class |-> class]

Invalid(line) == [result |-> "ValueError", line |-> line, class |-> NoneStr]

\* create_model: the model class selected for args.task, args.mlp and args.net
create_model(task, mlp, net) ==
    IF task \in {"classification", "regression"}
    THEN IF mlp # NoneStr /\ net = NoneStr THEN Selected("MLPModel")
         ELSE IF mlp = NoneStr /\ net # NoneStr THEN Selected("CVModel")
         ELSE IF mlp # NoneStr /\ net # NoneStr THEN Selected("FusionModel")
         ELSE Invalid(539)
    ELSE IF task = "deepsurv"
    THEN IF mlp # NoneStr /\ net = NoneStr THEN Selected("MLPDeepSurv")
         ELSE IF mlp = NoneStr /\ net # NoneStr THEN Selected("CVDeepSurv")
         ELSE IF mlp # NoneStr /\ net # NoneStr THEN Selected("FusionDeepSurv")
         ELSE Invalid(549)
    ELSE Invalid(552)

\* create_net of lib.component: the network of the head composer for the two
\* backbones and the classes of each label, on the devices of the model
create_net(mlp, net, label_num_classes, num_inputs, gpu_ids) ==
    create_mlp_cnn(mlp, net, num_inputs, label_num_classes, gpu_ids)

NoWidget ==
    [op |-> "init", result |-> "init", line |-> NoneInt, class |-> NoneStr,
     task |-> NoneStr, mlp |-> NoneStr, net |-> NoneStr, step |-> "init",
     inputs |-> NoneStr, image |-> NoneStr, multi_label |-> <<>>,
     period |-> NoneStr]

\* one batch of the dataloader
Data(batch, labels) ==
    [inputs |-> batch, image |-> batch, period |-> batch,
     internal_labels |-> [i \in 1..Len(labels) |-> <<labels[i], batch>>]]

\* set_data of the six model classes
set_data(m, data) ==
    LET tabular == m.class \in {"MLPModel", "FusionModel", "MLPDeepSurv", "FusionDeepSurv"}
        visual == m.class \in {"CVModel", "FusionModel", "CVDeepSurv", "FusionDeepSurv"}
    IN  [m EXCEPT !.inputs = IF tabular THEN data.inputs ELSE @,
                  !.image = IF visual THEN data.image ELSE @,
                  !.multi_label = data.internal_labels,
                  !.period = IF m.class \in DeepSurvs THEN data.period ELSE @]

NoPassed ==
    [called |-> FALSE, outputs |-> NoOutput, labels |-> <<>>,
     period |-> NoneStr, network |-> NoModel]

\* (variant: the survival models pass the network and leave the period out)
batch_loss_args_no_period(m, outputs, net) ==
    [called |-> TRUE, outputs |-> outputs, labels |-> m.multi_label,
     period |-> NoneStr,
     network |-> IF m.class \in DeepSurvs THEN net ELSE NoModel]

\* the arguments cal_batch_loss of the six model classes passes to
\* LossStore.cal_batch_loss; period and network default to None
batch_loss_args(m, outputs, net) ==
    IF m.class \in DeepSurvs
    THEN [called |-> TRUE, outputs |-> outputs, labels |-> m.multi_label,
          period |-> m.period, network |-> net]
    ELSE [called |-> TRUE, outputs |-> outputs, labels |-> m.multi_label,
          period |-> NoneStr, network |-> NoModel]

\* labels.keys()
keys(labels) == [i \in 1..Len(labels) |-> labels[i][1]]

----------------------------------------------------------------------------
(* The state machine *)

Running == last.result \in {"init", "ok"}

NoCall ==
    [op |-> "init", result |-> "init", epoch |-> NoneInt, phase |-> "",
     dataset_size |-> NoneInt, batch_size |-> NoneInt, labels |-> <<>>]

NoNetwork ==
    [op |-> "init", class |-> NoneStr, mlp |-> NoneStr, cnn |-> NoneStr,
     label_num_classes |-> <<>>, result |-> "init", line |-> NoneInt,
     model |-> NoModel, log |-> <<>>]

NoComment ==
    [epoch |-> NoneInt, num_epochs |-> NoneInt, train_loss |-> None,
     val_loss |-> None, updated_comment |-> ""]

NoNormalize == [likelihood |-> <<>>, result |-> "none", value |-> <<>>]

Init ==
    /\ label_list \in TaskLists
    /\ batch_loss = init_batch_loss(label_list)
    /\ running_loss = init_running_loss(label_list)
    /\ epoch_loss = init_epoch_loss(label_list)
    /\ batches = <<>>
    /\ last = NoCall
    /\ network = NoNetwork
    /\ multi_output = NoOutput
    /\ normalized = NoNormalize
    /\ acting_best_epoch = NoneInt
    /\ acting_best_weight = NoneInt
    /\ comment = NoComment
    /\ layer_output = NoLayerOutput
    /\ widget = NoWidget
    /\ passed = NoPassed

CalBatchLoss(outputs, labels, crit) ==
    /\ Running
    /\ LET r == cal_batch_loss(batch_loss, outputs, labels, crit)
       IN  /\ batch_loss' = r.batch_loss
           /\ last' = [NoCall EXCEPT !.op = "cal_batch_loss", !.result = r.result,
                                     !.labels = labels]
    /\ UNCHANGED <<label_list, running_loss, epoch_loss, batches>>
    /\ UNCHANGED <<netVars, loopVars, widgetVars>>

CalRunningLoss(batch_size) ==
    /\ Running
    /\ LET r == cal_running_loss(running_loss, batch_loss, label_list, batch_size)
       IN  /\ running_loss' = r.running_loss
           /\ batches' = IF r.result = "ok"
                         THEN Append(batches,
                                  [loss |-> [t \in Range(label_list) |-> batch_loss[t]],
                                   size |-> batch_size])
                         ELSE batches
           /\ last' = [NoCall EXCEPT !.op = "cal_running_loss", !.result = r.result,
                                     !.batch_size = batch_size]
    /\ UNCHANGED <<label_list, batch_loss, epoch_loss>>
    /\ UNCHANGED <<netVars, loopVars, widgetVars>>

CalEpochLoss(epoch, phase, dataset_size) ==
    /\ Running
    /\ LET r == cal_epoch_loss(batch_loss, running_loss, epoch_loss, label_list,
                               epoch, phase, dataset_size)
       IN  /\ batch_loss' = r.batch_loss
           /\ running_loss' = r.running_loss
           /\ epoch_loss' = r.epoch_loss
           /\ batches' = IF r.result = "ok" THEN <<>> ELSE batches
           /\ last' = [NoCall EXCEPT !.op = "cal_epoch_loss", !.result = r.result,
                                     !.epoch = epoch, !.phase = phase,
                                     !.dataset_size = dataset_size]
    /\ UNCHANGED label_list
    /\ UNCHANGED <<netVars, loopVars, widgetVars>>

\* base_model is a model of the family the composer class is written for
Compose(class, base_model, label_num_classes) ==
    /\ network.op = "init"
    /\ network' = [NoNetwork EXCEPT
                      !.op = "X_Multi", !.class = class,
                      !.label_num_classes = label_num_classes,
                      !.result = "ok",
                      !.model = Multi(class, base_model, label_num_classes)]
    /\ UNCHANGED <<storeVars, loopVars, widgetVars>>
    /\ UNCHANGED <<multi_output, normalized, layer_output>>

CreateMlpCnn(mlp, cnn, num_inputs, label_num_classes, gpu_ids) ==
    /\ network.op = "init"
    /\ LET made == create_mlp_cnn(mlp, cnn, num_inputs, label_num_classes, gpu_ids)
       IN  network' = [NoNetwork EXCEPT
                          !.op = "create_mlp_cnn", !.mlp = mlp, !.cnn = cnn,
                          !.label_num_classes = label_num_classes,
                          !.result = made.result, !.line = made.line,
                          !.model = made.model, !.log = made.log]
    /\ UNCHANGED <<storeVars, loopVars, widgetVars>>
    /\ UNCHANGED <<multi_output, normalized, layer_output>>

\* a forward pass of the constructed network (predict_by_model); likelihood
\* is what the auxiliary image model of a fusion network yields for images
Forward(inputs, images, likelihood) ==
    /\ network.result = "ok"
    /\ multi_output.result \in {"none", "ok"}
    /\ multi_output' = forward(network.model, inputs, images, likelihood)
    /\ normalized' = IF network.model.class = "MLPCNN_Net"
                     THEN [likelihood |-> likelihood,
                           result |-> normalize_cnn_output(likelihood).result,
                           value |-> normalize_cnn_output(likelihood).value]
                     ELSE normalized
    /\ UNCHANGED <<storeVars, loopVars, widgetVars>>
    /\ UNCHANGED <<network, layer_output>>

\* the prediction of one label taken out of the network's output
GetLayerOutput(label_name) ==
    /\ multi_output.result = "ok"
    /\ layer_output' = get_layer_output(multi_output, label_name)
    /\ UNCHANGED <<storeVars, loopVars, widgetVars>>
    /\ UNCHANGED <<network, multi_output, normalized>>

\* create_model(args): the selected class is constructed, and its
\* constructor builds the network for the labels of the split
CreateModel(task, mlp, net, num_inputs, label_num_classes, gpu_ids) ==
    /\ widget.op = "init"
    /\ network.op = "init"
    /\ LET sel == create_model(task, mlp, net)
           made == create_net(mlp, net, label_num_classes, num_inputs, gpu_ids)
           m == [NoWidget EXCEPT !.op = "create_model", !.task = task,
                                 !.mlp = mlp, !.net = net, !.class = sel.class]
       IN  IF sel.result # "ok"
           THEN /\ widget' = [m EXCEPT !.result = sel.result, !.line = sel.line]
                /\ UNCHANGED network
           ELSE /\ widget' = [m EXCEPT !.result = made.result, !.step = "created"]
                /\ network' = [NoNetwork EXCEPT
                                  !.op = "create_model", !.mlp = mlp, !.cnn = net,
                                  !.label_num_classes = label_num_classes,
                                  !.result = made.result, !.line = made.line,
                                  !.model = made.model, !.log = made.log]
    /\ UNCHANGED <<storeVars, loopVars>>
    /\ UNCHANGED <<multi_output, normalized, layer_output, passed>>

\* model.set_data(data)
SetData(data) ==
    /\ widget.result = "ok"
    /\ widget.step \in {"created", "forward"}
    /\ widget' = [set_data(widget, data) EXCEPT !.step = "set_data"]
    /\ UNCHANGED <<storeVars, loopVars, netVars>>
    /\ UNCHANGED passed

\* model.forward()
ModelForward(likelihood) ==
    /\ widget.result = "ok"
    /\ widget.step = "set_data"
    /\ multi_output' = forward(network.model, widget.inputs, widget.image, likelihood)
    /\ normalized' = IF network.model.class = "MLPCNN_Net"
                     THEN [likelihood |-> likelihood,
                           result |-> normalize_cnn_output(likelihood).result,
                           value |-> normalize_cnn_output(likelihood).value]
                     ELSE normalized
    /\ widget' = [widget EXCEPT !.step = "forward",
                              !.result = multi_output'.result]
    /\ UNCHANGED <<storeVars, loopVars>>
    /\ UNCHANGED <<network, layer_output, passed>>

\* model.cal_batch_loss(): LossStore.cal_batch_loss is called with the
\* arguments of the model's class; a tensor cannot be indexed by a label name
ModelCalBatchLoss(crit) ==
    /\ Running
    /\ widget.result = "ok"
    /\ widget.step = "forward"
    /\ LET args == batch_loss_args(widget, multi_output, network.model)
           labels == keys(args.labels)
           r == IF args.outputs.kind = "mapping" \/ labels = <<>>
                THEN cal_batch_loss(batch_loss, DOMAIN args.outputs.value, labels, crit)
                ELSE [batch_loss |-> batch_loss, result |-> "IndexError"]
       IN  /\ passed' = args
           /\ batch_loss' = r.batch_loss
           /\ last' = [NoCall EXCEPT !.op = "cal_batch_loss", !.result = r.result,
                                     !.labels = labels]
           /\ widget' = [widget EXCEPT !.step = "cal_batch_loss", !.result = r.result]
    /\ UNCHANGED <<label_list, running_loss, epoch_loss, batches>>
    /\ UNCHANGED <<netVars, loopVars>>

----------------------------------------------------------------------------
(* Callers *)

RECURSIVE SumSizes(_)
SumSizes(bs) == IF bs = <<>> THEN 0 ELSE SumSizes(SubSeq(bs, 1, Len(bs) - 1)) + Last(bs).size

\* the label mappings a caller may pass: the tasks, or some of them, in order
LabelSeqs(ll) ==
    { s \in UNION { [1..n -> Range(ll)] : n \in 0..Len(ll) } :
        \A i, j \in 1..Len(s) : i < j =>
            \E a, b \in 1..Len(ll) : a < b /\ ll[a] = s[i] /\ ll[b] = s[j] }

Finalized == Len(epoch_loss["total"].train) + Len(epoch_loss["total"].val)

\* A free run: the calls of one accumulation period in any order and with any
\* arguments, up to and including its finalize
FreeBatch ==
    /\ Finalized = 0
    /\ \E labels \in LabelSeqs(label_list), outputs \in SUBSET Range(label_list),
       crit \in [Range(label_list) -> FreeLossVals] :
        CalBatchLoss(outputs, labels, crit)

FreeAccumulate ==
    /\ Finalized = 0
    /\ Len(batches) < MaxBatches
    /\ \E batch_size \in BatchSizes \cup {NoneInt} : CalRunningLoss(batch_size)

FreeFinalize ==
    /\ Finalized = 0
    /\ \E epoch \in 0..MaxEpoch, phase \in {"train", "val", "test"},
          dataset_size \in {NoneInt, 0, SumSizes(batches)} :
        CalEpochLoss(epoch, phase, dataset_size)

Next == FreeBatch \/ FreeAccumulate \/ FreeFinalize

Spec == Init /\ [][Next]_vars

\* A training run: per epoch the training batches, the training finalize, the
\* validation batches, the validation finalize, with epoch = 0, 1, 2, ...
CurEpoch == Len(epoch_loss["total"].val)
CurPhase == IF Len(epoch_loss["total"].train) = CurEpoch THEN "train" ELSE "val"

RunBatch ==
    /\ CurEpoch < NumEpochs
    /\ \/ last.op \in {"init", "epoch_end"}
       \/ last.op = "cal_epoch_loss" /\ last.phase = "train"
    /\ \E crit \in [Range(label_list) ->
                        IF CurPhase = "train" THEN {<<9, 10>>} ELSE LossVals] :
        CalBatchLoss(Range(label_list), label_list, crit)

RunAccumulate ==
    /\ last.op = "cal_batch_loss"
    /\ \E batch_size \in BatchSizes : CalRunningLoss(batch_size)

RunFinalize ==
    /\ last.op = "cal_running_loss"
    /\ CalEpochLoss(CurEpoch, CurPhase, SumSizes(batches))

\* the end of an epoch, after its validation finalize: the progress line, and
\* the snapshot if the total validation loss has been updated
RunEpochEnd ==
    /\ Running
    /\ last.op = "cal_epoch_loss"
    /\ last.phase = "val"
    /\ comment' = print_epoch_loss(epoch_loss, NumEpochs, last.epoch)
    /\ IF is_total_val_loss_updated(epoch_loss)
       THEN /\ acting_best_epoch' = store_weight(epoch_loss, label_list)
            /\ acting_best_weight' = Len(epoch_loss["total"].train)
       ELSE UNCHANGED <<acting_best_epoch, acting_best_weight>>
    /\ last' = [NoCall EXCEPT !.op = "epoch_end", !.result = "ok",
                              !.epoch = last.epoch]
    /\ UNCHANGED <<label_list, batch_loss, running_loss, epoch_loss, batches>>
    /\ UNCHANGED <<netVars, widgetVars>>

NextRun == RunBatch \/ RunAccumulate \/ RunFinalize \/ RunEpochEnd

SpecRun == Init /\ [][NextRun]_vars

\* The construction of a network and its forward passes
LabelNumClasses ==
    { s \in UNION { [1..n -> TaskNames \X ClassCounts] : n \in 0..MaxTasks } :
        \A i, j \in 1..Len(s) : i # j => s[i][1] # s[j][1] }

Bases(class) ==
    CASE class = "MLP_Multi" -> { MLP(n, 2) : n \in NumInputs }
      [] class = "ResNet_Multi" ->
            { torchvision(models["ResNet18"], NoneInt), torchvision(models["ResNet"], NoneInt) }
      [] class = "DenseNet_Multi" -> { torchvision(models["DenseNet"], NoneInt) }
      [] class = "EfficientNet_Multi" -> { torchvision(models["B0"], NoneInt) }
      [] class = "ConvNeXt_Multi" -> { torchvision(models["ConvNeXtTiny"], NoneInt) }
      [] class = "ViT_Multi" -> { torchvision(models["ViTb16"], NoneInt) }

LikelihoodBatches == UNION { [1..n -> Likelihoods] : n \in 1..MaxRows }

NetCompose ==
    \E class \in Composers, label_num_classes \in LabelNumClasses :
        \E base_model \in Bases(class) :
            Compose(class, base_model, label_num_classes)

NetCreate ==
    \E mlp \in {NoneStr, "MLP"}, cnn \in CnnArgs \cup {NoneStr},
       num_inputs \in NumInputs, label_num_classes \in LabelNumClasses,
       gpu_ids \in GpuIds :
        CreateMlpCnn(mlp, cnn, num_inputs, label_num_classes, gpu_ids)

NetForward ==
    /\ multi_output.result = "none"
    /\ \E data \in Inputs :
        \E likelihood \in IF network.model.class = "MLPCNN_Net"
                          THEN LikelihoodBatches ELSE { <<>> } :
            Forward(data, data, likelihood)

NetGetLayerOutput ==
    /\ layer_output.result = "none"
    /\ \E i \in 1..Len(network.label_num_classes) :
           GetLayerOutput(network.label_num_classes[i][1])

\* the label names of the split are those of the loss store
SplitLabelNumClasses ==
    { s \in LabelNumClasses :
        /\ Len(s) = Len(label_list)
        /\ \A i \in 1..Len(s) : s[i][1] = label_list[i] }

ModelCreate ==
    \E task \in Tasks \cup {"segmentation"}, mlp \in {NoneStr, "MLP"},
       net \in CnnArgs \cup {NoneStr}, num_inputs \in NumInputs,
       label_num_classes \in SplitLabelNumClasses, gpu_ids \in GpuIds :
        CreateModel(task, mlp, net, num_inputs, label_num_classes, gpu_ids)

ModelSetData == \E batch \in Inputs : SetData(Data(batch, label_list))

ModelForwardBatch ==
    \E likelihood \in IF network.model.class = "MLPCNN_Net"
                      THEN LikelihoodBatches ELSE { <<>> } :
        ModelForward(likelihood)

ModelBatchLoss ==
    \E crit \in [Range(label_list) -> FreeLossVals] : ModelCalBatchLoss(crit)

\* a program builds its network through create_model or through create_mlp_cnn
ModelNetCreate == widget.op = "init" /\ NetCreate

NextModel ==
    ModelCreate \/ ModelNetCreate \/ ModelSetData \/ ModelForwardBatch \/ ModelBatchLoss

SpecModel == Init /\ [][NextModel]_vars

NextNet == NetCompose \/ NetCreate \/ NetForward \/ NetGetLayerOutput

SpecNet == Init /\ [][NextNet]_vars

----------------------------------------------------------------------------
(* Properties *)

AllKeys == Range(Keys(label_list))

Called(op) == last.op = op /\ last.result = "ok"

\* the step is a successful cal_epoch_loss of the phase
FinalizeStep(phase) ==
    /\ last'.op = "cal_epoch_loss"
    /\ last'.result = "ok"
    /\ last'.phase = phase

\* C1: a validation cal_epoch_loss at epoch 0 records the loss just appended as
\* best_val_loss and sets update_flag; at an epoch > 0 it replaces best_val_loss
\* and best_epoch and sets update_flag exactly when the new loss is strictly
\* less than the stored best, and otherwise clears update_flag and keeps
\* best_val_loss and best_epoch; for every key on its own.
C1_BestEpochRule ==
    [][FinalizeStep("val") =>
        \A k \in AllKeys :
            LET old == epoch_loss[k]
                now == epoch_loss'[k]
                new == Last(now.val)
            IN  IF last'.epoch = 0
                THEN now.best_val_loss = new /\ now.update_flag
                ELSE IF new[1] * old.best_val_loss[2] < old.best_val_loss[1] * new[2]
                     THEN /\ now.best_val_loss = new
                          /\ now.best_epoch = last'.epoch + 1
                          /\ now.update_flag
                     ELSE /\ ~now.update_flag
                          /\ now.best_val_loss = old.best_val_loss
                          /\ now.best_epoch = old.best_epoch]_vars

\* a validation finalize at an epoch > 0 after which one key has improved and
\* another has only equalled its best
C1_Witness ==
    /\ Called("cal_epoch_loss") /\ last.phase = "val" /\ last.epoch > 0
    /\ \E k1, k2 \in AllKeys :
        /\ epoch_loss[k1].update_flag
        /\ epoch_loss[k1].best_epoch = last.epoch + 1
        /\ ~epoch_loss[k2].update_flag
        /\ Last(epoch_loss[k2].val) = epoch_loss[k2].best_val_loss

C2Losses == << <<9, 10>>, <<1, 2>>, <<3, 5>>, <<1, 2>> >>

IsMin(a, s) ==
    /\ \E i \in 1..Len(s) : s[i] = a
    /\ \A i \in 1..Len(s) : a[1] * s[i][2] <= s[i][1] * a[2]

\* C3: in a run that finalizes the validation epochs 0, 1, 2, ... in order, for
\* every key best_val_loss is the minimum of the key's validation history and
\* best_epoch is the (1-indexed) number of the earliest epoch with that loss.
C3_BestIsEarliestMin ==
    \A k \in AllKeys :
        LET e == epoch_loss[k] IN
        e.val # <<>> =>
            /\ IsMin(e.best_val_loss, e.val)
            /\ e.best_epoch \in 1..Len(e.val)
            /\ e.val[e.best_epoch] = e.best_val_loss
            /\ \A j \in 1..(e.best_epoch - 1) : e.val[j] # e.best_val_loss

\* the tasks' best epochs differ from each other and from the aggregate's, and a
\* key's minimum occurs twice
C3_Witness ==
    /\ Len(label_list) = 2
    /\ epoch_loss[label_list[1]].best_epoch # epoch_loss[label_list[2]].best_epoch
    /\ epoch_loss["total"].best_epoch # epoch_loss[label_list[1]].best_epoch
    /\ epoch_loss["total"].best_epoch # epoch_loss[label_list[2]].best_epoch
    /\ \E k \in AllKeys : \E i, j \in 1..Len(epoch_loss[k].val) :
        /\ i < j
        /\ epoch_loss[k].val[i] = epoch_loss[k].best_val_loss
        /\ epoch_loss[k].val[j] = epoch_loss[k].best_val_loss

\* C4: a train-phase cal_epoch_loss leaves best_val_loss, best_epoch,
\* update_flag and the validation history of every key unchanged.
C4_TrainFrame ==
    [][FinalizeStep("train") =>
        \A k \in AllKeys :
            /\ epoch_loss'[k].val = epoch_loss[k].val
            /\ epoch_loss'[k].best_val_loss = epoch_loss[k].best_val_loss
            /\ epoch_loss'[k].best_epoch = epoch_loss[k].best_epoch
            /\ epoch_loss'[k].update_flag = epoch_loss[k].update_flag]_vars

\* a train finalize of a later epoch, when a best has been recorded
C4_Witness ==
    /\ Called("cal_epoch_loss") /\ last.phase = "train" /\ last.epoch > 0
    /\ \A k \in AllKeys :
        /\ epoch_loss[k].best_val_loss # None
        /\ Len(epoch_loss[k].train) = Len(epoch_loss[k].val) + 1

\* sum over the batches of loss[t] * size
RECURSIVE WeightedSum(_, _)
WeightedSum(bs, t) ==
    IF bs = <<>> THEN Zero
    ELSE LET b == Last(bs)
             rest == WeightedSum(SubSeq(bs, 1, Len(bs) - 1), t)
         IN  Rat(rest[1] * b.loss[t][2] + b.loss[t][1] * b.size * rest[2],
                 rest[2] * b.loss[t][2])

\* C5: every cal_running_loss(batch_size) adds batch_loss[task] * batch_size to
\* running_loss[task] for every task, so running_loss[task] is the sum over the
\* batches accumulated so far of batch_loss[task] * batch_size.
C5_RunningIsWeightedSum ==
    Running =>
        \A t \in Range(label_list) : running_loss[t] = WeightedSum(batches, t)

\* two batches of different sizes and different losses have been accumulated
C5_Witness ==
    /\ Called("cal_running_loss")
    /\ Len(batches) = 2
    /\ batches[1].size # batches[2].size
    /\ \E t \in Range(label_list) : batches[1].loss[t] # batches[2].loss[t]

\* the history of the phase
History(e, phase) == IF phase = "train" THEN e.train ELSE e.val

\* C6: after the batches have been accumulated, cal_epoch_loss with dataset_size
\* = the sum of the batch sizes appends, for every task, the batch-size-weighted
\* mean of the task's batch losses to the history of the phase.
C6_EpochLossIsWeightedMean ==
    [][(\E p \in {"train", "val"} : FinalizeStep(p))
         /\ last'.dataset_size = SumSizes(batches) =>
        \A t \in Range(label_list) :
            LET sum == WeightedSum(batches, t)
                new == Last(History(epoch_loss'[t], last'.phase))
            IN  /\ Len(History(epoch_loss'[t], last'.phase))
                     = Len(History(epoch_loss[t], last'.phase)) + 1
                /\ new[1] * sum[2] * SumSizes(batches) = sum[1] * new[2]]_vars

\* a finalize over two batches of sizes 4 and 6 whose mean is a proper mix
C6_Witness ==
    /\ Called("cal_epoch_loss") /\ last.dataset_size = 10
    /\ \E t \in Range(label_list) :
        Last(History(epoch_loss[t], last.phase)) \notin FreeLossVals

RECURSIVE SumLatest(_, _, _)
SumLatest(el, ll, phase) ==
    IF ll = <<>> THEN Zero
    ELSE RatAdd(SumLatest(el, SubSeq(ll, 1, Len(ll) - 1), phase),
                Last(History(el[Last(ll)], phase)))

\* C7: the value cal_epoch_loss appends to epoch_loss['total'] is the mean over
\* the tasks of the per-task epoch losses of the same call; with two tasks and
\* a non-zero loss it is neither their sum nor running_loss['total'] /
\* dataset_size.
C7_TotalIsMeanOverTasks ==
    [][(\E p \in {"train", "val"} : FinalizeStep(p)) =>
        LET sum == SumLatest(epoch_loss', label_list, last'.phase)
            new == Last(History(epoch_loss'["total"], last'.phase))
            run == running_loss["total"]
        IN  /\ new[1] * sum[2] * Len(label_list) = sum[1] * new[2]
            /\ Len(label_list) > 1 /\ sum # Zero =>
                /\ new # sum
                /\ new[1] * run[2] * last'.dataset_size # run[1] * new[2]]_vars

\* a finalize of two tasks with different epoch losses over batches of 4 and 6
C7_Witness ==
    /\ Called("cal_epoch_loss") /\ last.dataset_size = 10
    /\ Len(label_list) = 2
    /\ Last(History(epoch_loss[label_list[1]], last.phase))
         # Last(History(epoch_loss[label_list[2]], last.phase))

RECURSIVE SumBatchLoss(_, _)
SumBatchLoss(bl, ll) ==
    IF ll = <<>> THEN Zero
    ELSE RatAdd(SumBatchLoss(bl, SubSeq(ll, 1, Len(ll) - 1)), bl[Last(ll)])

\* C8: after cal_batch_loss completes, batch_loss holds a value for every task
\* of label_list and batch_loss['total'] is the sum of those per-task losses.
C8_BatchLossForEveryTask ==
    Called("cal_batch_loss") =>
        /\ \A t \in Range(label_list) : batch_loss[t] # None
        /\ batch_loss["total"] = SumBatchLoss(batch_loss, label_list)

\* C9: every successful cal_epoch_loss leaves batch_loss unset and running_loss
\* zero for every key, and the epoch loss it appends is made of the batches
\* accumulated since the previous reset only.
C9_ResetBetweenEpochs ==
    [][(\E p \in {"train", "val"} : FinalizeStep(p)) =>
        /\ \A k \in AllKeys : batch_loss'[k] = None /\ running_loss'[k] = Zero
        /\ \A t \in Range(label_list) :
            LET sum == WeightedSum(batches, t)
                new == Last(History(epoch_loss'[t], last'.phase))
            IN  new[1] * sum[2] * last'.dataset_size = sum[1] * new[2]]_vars

\* a validation finalize has followed the train finalize of a later epoch
C9_Witness ==
    /\ Called("cal_epoch_loss") /\ last.phase = "val" /\ last.epoch > 0
    /\ \A k \in AllKeys : batch_loss[k] = None /\ running_loss[k] = Zero
    /\ \E t \in Range(label_list) :
        Last(epoch_loss[t].val) # Last(epoch_loss[t].train)

\* C10: a call that fails leaves batch_loss, running_loss and every EpochLoss
\* as they were before the call.
C10_FailureChangesNothing ==
    [][last'.result \notin {"init", "ok"} =>
        /\ batch_loss' = batch_loss
        /\ running_loss' = running_loss
        /\ epoch_loss' = epoch_loss]_vars

\* an action changes no field of the loss store
StoreUnchanged ==
    /\ batch_loss' = batch_loss
    /\ running_loss' = running_loss
    /\ epoch_loss' = epoch_loss

\* C11: cal_running_loss called without a batch_size (None) fails with an
\* error and leaves running_loss, batch_loss and epoch_loss as they were.
C11_NoBatchSizeFails ==
    [][(last'.op = "cal_running_loss" /\ last'.batch_size = NoneInt) =>
        /\ last'.result = "AssertionError"
        /\ StoreUnchanged]_vars

\* cal_running_loss without batch_size has failed on a store that holds a
\* batch loss and a running loss
C11_Witness ==
    /\ last.op = "cal_running_loss"
    /\ last.batch_size = NoneInt
    /\ last.result = "AssertionError"
    /\ batch_loss["total"] # None
    /\ running_loss["total"] # Zero

\* C12: cal_epoch_loss called without a dataset_size (None) fails with an
\* error and has appended to no history, updated no best-epoch field and
\* reset neither batch_loss nor running_loss.
C12_NoDatasetSizeFails ==
    [][(last'.op = "cal_epoch_loss" /\ last'.dataset_size = NoneInt) =>
        /\ last'.result = "AssertionError"
        /\ \A k \in AllKeys : epoch_loss'[k] = epoch_loss[k]
        /\ batch_loss' = batch_loss
        /\ running_loss' = running_loss]_vars

\* a validation cal_epoch_loss without dataset_size has failed on a store
\* with an accumulated running loss
C12_Witness ==
    /\ last.op = "cal_epoch_loss"
    /\ last.dataset_size = NoneInt
    /\ last.phase = "val"
    /\ last.result = "AssertionError"
    /\ Len(batches) = MaxBatches
    /\ \A k \in AllKeys : running_loss[k] # Zero

\* C13: cal_epoch_loss called with a phase that is neither 'train' nor 'val'
\* fails and changes no history, no best-epoch field and no running or batch
\* loss; with a dataset_size that can be divided by, the error is the one of
\* the unknown phase (no such history).
C13_UnknownPhaseFails ==
    [][(last'.op = "cal_epoch_loss" /\ last'.phase \notin {"train", "val"}) =>
        /\ last'.result \notin {"init", "ok"}
        /\ (last'.dataset_size > 0 => last'.result = "AttributeError")
        /\ \A k \in AllKeys :
               /\ epoch_loss'[k].train = epoch_loss[k].train
               /\ epoch_loss'[k].val = epoch_loss[k].val
               /\ epoch_loss'[k].best_val_loss = epoch_loss[k].best_val_loss
               /\ epoch_loss'[k].best_epoch = epoch_loss[k].best_epoch
               /\ epoch_loss'[k].update_flag = epoch_loss[k].update_flag
        /\ batch_loss' = batch_loss
        /\ running_loss' = running_loss]_vars

\* cal_epoch_loss of phase 'test' with the accumulated dataset size has failed
C13_Witness ==
    /\ last.op = "cal_epoch_loss"
    /\ last.phase = "test"
    /\ last.dataset_size = SumSizes(batches)
    /\ last.dataset_size > 0
    /\ last.result = "AttributeError"
    /\ running_loss["total"] # Zero

\* a composed multi-task network stands constructed
Composed == network.result = "ok" /\ network.model.class \in Composers

\* C14: for every non-empty TaskSet and every composer class (MLP_Multi,
\* ResNet_Multi, DenseNet_Multi, EfficientNet_Multi, ConvNeXt_Multi,
\* ViT_Multi), the constructed network has exactly one head per task, named
\* <prefix><task name> with the class's prefix (fc_, block_ or heads_) in the
\* order of the TaskSet, each head as wide as its task's class count, and the
\* backbone's final projection is the no-op passthrough.
C14_OneHeadPerTask ==
    (Composed /\ network.label_num_classes # <<>>) =>
        LET tasks == network.label_num_classes
            net == network.model
            prefix == IF net.class \in {"MLP_Multi", "ResNet_Multi", "DenseNet_Multi"}
                      THEN "fc_"
                      ELSE IF net.class \in {"EfficientNet_Multi", "ConvNeXt_Multi"}
                      THEN "block_"
                      ELSE "heads_"
        IN  /\ Len(net.names) = Len(tasks)
            /\ \A i \in 1..Len(tasks) : net.names[i] = prefix \o tasks[i][1]
            /\ DOMAIN net.heads = Range(net.names)
            /\ Cardinality(DOMAIN net.heads) = Len(tasks)
            /\ \A i \in 1..Len(tasks) :
                   net.heads[net.names[i]].out_features = tasks[i][2]
            /\ net.projection = "Identity"

\* a ConvNeXt_Multi constructed directly for two tasks of different class
\* counts
C14_Witness ==
    /\ network.op = "X_Multi"
    /\ network.class = "ConvNeXt_Multi"
    /\ Len(network.label_num_classes) = 2
    /\ network.label_num_classes[1][2] # network.label_num_classes[2][2]
    /\ network.model.names = <<"block_malignant", "block_grade">>

\* C15: for every composer class, the forward pass of the composed network
\* returns a mapping whose keys are exactly the head names built at
\* construction, each value being the output of the head of that name on the
\* one feature batch the backbone has produced.
C15_ForwardKeys ==
    (Composed /\ multi_output.result # "none") =>
        /\ multi_output.result = "ok"
        /\ multi_output.kind = "mapping"
        /\ DOMAIN multi_output.value = Range(network.model.names)
        /\ Cardinality(DOMAIN multi_output.value) = Len(network.label_num_classes)
        /\ \A name \in DOMAIN multi_output.value :
               /\ multi_output.value[name].head = name
               /\ multi_output.value[name].out_features =
                      network.model.heads[name].out_features
               /\ multi_output.value[name].features.extractor = network.model.arch
        /\ \A a, b \in DOMAIN multi_output.value :
               multi_output.value[a].features = multi_output.value[b].features

\* the forward pass of a two-task ViT_Multi that the dispatcher has built
C15_Witness ==
    /\ network.op = "create_mlp_cnn"
    /\ network.model.class = "ViT_Multi"
    /\ multi_output.result = "ok"
    /\ DOMAIN multi_output.value = {"heads_grade", "heads_malignant"}

\* C16: for every non-empty TaskSet, a TaskSet of exactly one task included,
\* the forward of the model the dispatcher returns yields an output mapping
\* with one entry per task, never a bare prediction batch.
C16_ForwardIsMapping ==
    (/\ network.op = "create_mlp_cnn"
     /\ network.label_num_classes # <<>>
     /\ multi_output.result = "ok") =>
        /\ multi_output.kind = "mapping"
        /\ Cardinality(DOMAIN multi_output.value) = Len(network.label_num_classes)

\* C17: building a model with an empty TaskSet fails, and no model object is
\* returned.
C17_EmptyTaskSetFails ==
    (network.op # "init" /\ network.label_num_classes = <<>>) =>
        /\ network.result # "ok"
        /\ network.model = NoModel

\* C18: building an image model with a backbone name that is not one of the
\* recognized names fails where the name is found unrecognized (the else
\* branch of the name selection, line 321), and no model is returned.
C18_UnrecognizedFailsAtSelection ==
    (/\ network.op = "create_mlp_cnn"
     /\ network.cnn # NoneStr
     /\ network.cnn \notin DOMAIN models) =>
        /\ network.result # "ok"
        /\ network.line = 321
        /\ network.model = NoModel

\* normalize_cnn_output has been called on a batch
Normalized == normalized.result # "none"

\* every likelihood of the batch is the same
AllEqual(batch) == \A i, j \in 1..Len(batch) : batch[i] = batch[j]

\* C19: when every likelihood of the batch is equal (max = min, e.g. 0.2, 0.2,
\* 0.2), normalize_cnn_output returns without an error a batch of the same
\* length whose every element is 0.
C19_DegenerateIsZero ==
    (Normalized /\ AllEqual(normalized.likelihood)) =>
        /\ normalized.result = "ok"
        /\ Len(normalized.value) = Len(normalized.likelihood)
        /\ \A i \in 1..Len(normalized.value) : normalized.value[i] = Zero

\* the fusion forward of a batch of three likelihoods 0.2
C19_Witness ==
    /\ network.model.class = "MLPCNN_Net"
    /\ normalized.likelihood = << <<1, 5>>, <<1, 5>>, <<1, 5>> >>
    /\ normalized.value = <<Zero, Zero, Zero>>
    /\ multi_output.result = "ok"

\* C20: when the likelihoods of the batch are not all equal (max # min),
\* normalize_cnn_output returns (x - min) / (max - min) for every element, the
\* minimum going to 0 and the maximum to 1, and the fusion forward completes.
C20_GeneralCaseRescales ==
    (Normalized /\ ~AllEqual(normalized.likelihood)) =>
        LET batch == normalized.likelihood
            min == BatchMin(batch)
            max == BatchMax(batch)
        IN  /\ normalized.result = "ok"
            /\ Len(normalized.value) = Len(batch)
            /\ \A i \in 1..Len(batch) :
                   /\ normalized.value[i] = RatDiv(RatSub(batch[i], min), RatSub(max, min))
                   /\ ~RatLess(normalized.value[i], Zero)
                   /\ ~RatLess(<<1, 1>>, normalized.value[i])
            /\ multi_output.result = "ok"

\* the sum over the first n tasks of the task's running loss after the batches
RECURSIVE SumRunning(_, _, _)
SumRunning(bs, ll, n) ==
    IF n = 0 THEN Zero
    ELSE RatAdd(SumRunning(bs, ll, n - 1), WeightedSum(bs, ll[n]))

\* the sum over j = 1..k of the tasks' running losses as they stood after
\* batch j
RECURSIVE SumOfRunning(_, _, _)
SumOfRunning(bs, ll, k) ==
    IF k = 0 THEN Zero
    ELSE RatAdd(SumOfRunning(bs, ll, k - 1),
                SumRunning(SubSeq(bs, 1, k), ll, Len(ll)))

\* C23: cal_running_loss adds each task's whole updated running loss to
\* running_loss['total']: after k batches of a period, running_loss['total']
\* is the sum over the batches j = 1..k of the sum over the tasks of
\* running_loss[task] as it stood after batch j; it is the sum of the tasks'
\* running losses after the first batch, and more than that after a later one.
C23_TotalOverCounts ==
    Running =>
        LET tasks == SumRunning(batches, label_list, Len(label_list))
        IN  /\ running_loss["total"] = SumOfRunning(batches, label_list, Len(batches))
            /\ (Len(batches) = 1 => running_loss["total"] = tasks)
            /\ (Len(batches) > 1 => RatLess(tasks, running_loss["total"]))

\* the second batch of a period of two tasks has been accumulated
C23_Witness ==
    /\ Called("cal_running_loss")
    /\ Len(batches) = 2
    /\ Len(label_list) = 2
    /\ RatLess(RatAdd(running_loss["grade"], running_loss["malignant"]),
               running_loss["total"])

\* other values running_loss['total'] could hold
OtherTotals == { Zero, <<7, 1>> }

\* C24: the value held in running_loss['total'] never influences the epoch
\* losses or the best-epoch selection: had it been any other value, every call
\* would have left the same histories, best_val_loss, best_epoch and
\* update_flag for every key ('total' included), the same running loss for
\* every task and the same outcome.
C24_TotalNeverRead ==
    [][\A v \in OtherTotals :
        LET other == [running_loss EXCEPT !["total"] = v]
        IN  /\ last'.op = "cal_epoch_loss" =>
                LET r == cal_epoch_loss(batch_loss, other, epoch_loss, label_list,
                                        last'.epoch, last'.phase, last'.dataset_size)
                IN  /\ r.result = last'.result
                    /\ r.epoch_loss = epoch_loss'
                    /\ r.batch_loss = batch_loss'
                    /\ \A t \in Range(label_list) : r.running_loss[t] = running_loss'[t]
            /\ last'.op = "cal_running_loss" =>
                LET r == cal_running_loss(other, batch_loss, label_list, last'.batch_size)
                IN  /\ r.result = last'.result
                    /\ \A t \in Range(label_list) : r.running_loss[t] = running_loss'[t]
            /\ last'.op = "cal_batch_loss" => running_loss' = running_loss]_vars

\* a validation finalize of a later epoch of two tasks has compared the
\* 'total' loss to the stored best
C24_Witness ==
    /\ Called("cal_epoch_loss")
    /\ last.phase = "val"
    /\ last.epoch > 0
    /\ Len(label_list) = 2
    /\ epoch_loss["total"].best_val_loss # None
    /\ Len(epoch_loss["total"].val) > 1

\* C25: every successful cal_epoch_loss appends exactly one value to the
\* phase's history of every task and of 'total', and leaves the earlier entries
\* and the other phase's history as they were; after n complete epochs of a
\* training run (train finalize, then validation finalize) every key has n
\* train entries and n validation entries.
C25_HistoriesOnlyGrow ==
    /\ [][\A p \in {"train", "val"} : FinalizeStep(p) =>
            \A k \in AllKeys :
                LET q == IF p = "train" THEN "val" ELSE "train"
                    old == History(epoch_loss[k], p)
                    new == History(epoch_loss'[k], p)
                IN  /\ Len(new) = Len(old) + 1
                    /\ SubSeq(new, 1, Len(old)) = old
                    /\ History(epoch_loss'[k], q) = History(epoch_loss[k], q)]_vars
    /\ [](\A k \in AllKeys :
            /\ Len(epoch_loss[k].val) = CurEpoch
            /\ Len(epoch_loss[k].train) \in {CurEpoch, CurEpoch + 1})

\* the validation finalize of the third epoch has succeeded
C25_Witness ==
    /\ Called("cal_epoch_loss")
    /\ last.phase = "val"
    /\ \A k \in AllKeys :
        Len(epoch_loss[k].train) = 3 /\ Len(epoch_loss[k].val) = 3

\* an epoch of the training run has just been completed
EpochEnded == last.op = "epoch_end"

\* C26: with store_weight called exactly when is_total_val_loss_updated() is
\* true after each validation finalize, after every epoch acting_best_epoch
\* equals epoch_loss['total'].best_epoch, and the snapshot holds the weights
\* of the epoch with the lowest total validation loss so far, whatever the
\* best epochs of the tasks are.
C26_SnapshotIsTotalBest ==
    EpochEnded =>
        LET total == epoch_loss["total"]
        IN  /\ acting_best_epoch = total.best_epoch
            /\ acting_best_weight = total.best_epoch
            /\ acting_best_weight \in 1..Len(total.val)
            /\ \A i \in 1..Len(total.val) :
                   ~RatLess(total.val[i], total.val[acting_best_weight])

\* after a later epoch the snapshot is of an epoch that is not the best epoch
\* of one of the tasks
C26_Witness ==
    /\ EpochEnded
    /\ last.epoch > 0
    /\ acting_best_epoch > 1
    /\ \E t \in Range(label_list) : epoch_loss[t].best_epoch # acting_best_epoch

\* C30: the progress line of an epoch carries the 'Updated best val_loss!'
\* marker exactly when the epoch index is greater than 0 and the update flag of
\* 'total' is set: never at epoch 0, where the flag is set, and at a later
\* epoch if and only if the total validation loss of the epoch is strictly
\* less than the best before it.
C30_MarkerRule ==
    EpochEnded =>
        LET total == epoch_loss["total"]
            shown == comment.updated_comment # ""
            improved == \A i \in 1..(Len(total.val) - 1) :
                            RatLess(Last(total.val), total.val[i])
        IN  /\ comment.epoch = last.epoch + 1
            /\ shown <=> (last.epoch > 0 /\ total.update_flag)
            /\ (last.epoch = 0 => (total.update_flag /\ ~shown))
            /\ (last.epoch > 0 => (shown <=> improved))

\* the line of the third epoch carries the marker, the second epoch having
\* been worse than the first
C30_Witness ==
    /\ EpochEnded
    /\ last.epoch = 2
    /\ comment.updated_comment # ""
    /\ RatLess(epoch_loss["total"].val[1], epoch_loss["total"].val[2])

\* the objects the head is made of
Objects(head) == { head.layers[i].object : i \in 1..Len(head.layers) }

HeadOf(net, label_name) ==
    LET i == CHOOSE i \in 1..Len(net.label_num_classes) :
                 net.label_num_classes[i][1] = label_name
    IN  net.model.names[i]

\* C29: get_layer_output returns the output of the head of exactly the task
\* label_name, also when one task's name is a suffix of another's
C29_HeadOfExactlyTheTask ==
    (layer_output.result = "ok")
        => (layer_output.value = multi_output.value[HeadOf(network, layer_output.label_name)])

\* the model variant of a task kind and a pair of backbones
Variant(task, mlp, net) ==
    LET modality == IF net = NoneStr THEN "MLP" ELSE IF mlp = NoneStr THEN "CV" ELSE "Fusion"
        flavour == IF task = "deepsurv" THEN "DeepSurv" ELSE "Model"
    IN  modality \o flavour

\* create_model of the framework keeps the dispatcher's contract
CreateModelContract ==
    (widget.op = "create_model") =>
        IF widget.task \notin Tasks \/ (widget.mlp = NoneStr /\ widget.net = NoneStr)
        THEN /\ widget.result = "ValueError"
             /\ widget.class = NoneStr
             /\ network = NoNetwork
        ELSE widget.class = Variant(widget.task, widget.mlp, widget.net)

\* C21: the dispatcher fails with a configuration error and returns no model
\* when the task kind is not recognized or neither mlp nor net is given, and
\* selects exactly one variant (tabular, image or fusion; plain or survival)
\* otherwise; create_mlp_cnn has no task kind and selects among the networks
C21_DispatcherContract ==
    /\ CreateModelContract
    /\ (network.op = "create_mlp_cnn") =>
           IF network.mlp = NoneStr /\ network.cnn = NoneStr
           THEN /\ network.result = "ValueError"
                /\ network.model = NoModel
           ELSE (network.result = "ok") =>
                   network.model.class \in
                       IF network.cnn = NoneStr THEN {"MLP", "MLP_Multi"}
                       ELSE IF network.mlp = NoneStr
                       THEN {"torchvision"} \cup Composers
                       ELSE {"MLPCNN_Net"}

\* LossStore.cal_batch_loss has been called by the model on the output of a
\* composed multi-task network
BatchStepOnMulti == passed.called /\ passed.outputs.kind = "mapping"

\* C22: for every task, the key under which cal_batch_loss looks up the
\* prediction is a key of the mapping the multi-task network's forward has
\* returned, so the batch step finds a prediction for every task
C22_KeyAgreement ==
    BatchStepOnMulti =>
        /\ \A i \in 1..Len(passed.labels) :
               keys(passed.labels)[i] \in DOMAIN passed.outputs.value
        /\ last.result = "ok"
        /\ \A i \in 1..Len(passed.labels) : batch_loss[keys(passed.labels)[i]] # None

\* the batch every prediction of an output was computed from
BatchesOf(outputs) ==
    IF outputs.kind = "mapping"
    THEN { outputs.value[k].features.batch : k \in DOMAIN outputs.value }
    ELSE { outputs.value.features.batch }

\* C28: the survival models pass the period of the current batch and the
\* network to LossStore.cal_batch_loss, the other models pass neither; the
\* predictions and labels passed are those of the batch last set and forwarded
C28_ArgsOfVariants ==
    passed.called =>
        /\ passed.outputs = multi_output
        /\ passed.labels = widget.multi_label
        /\ \A b \in BatchesOf(passed.outputs) :
               /\ b.inputs = widget.inputs \/ b.images = widget.image
               /\ \A i \in 1..Len(passed.labels) :
                      passed.labels[i][2] \in {b.inputs, b.images}
        /\ IF widget.task = "deepsurv"
           THEN /\ passed.period = widget.period
                /\ passed.period = widget.multi_label[1][2]
                /\ passed.network = network.model
           ELSE /\ passed.period = NoneStr
                /\ passed.network = NoModel

C28_Witness ==
    /\ passed.called
    /\ widget.class = "CVDeepSurv"
    /\ passed.period = "batch2"
    /\ passed.network.class = "ResNet_Multi"

====
